---- MODULE Spec2Model ----
(***************************************************************************)
(* NS16550A UART driver (src/src/lib.rs) as a state machine.               *)
(*                                                                         *)
(* The driver keeps no state of its own besides base_address: everything   *)
(* it does is a volatile access to the device's register block.  The state *)
(* is therefore the register block (dev), and per caller the position in   *)
(* the method being run (pc), its arguments (arg), its result (ret) and    *)
(* history variables: the register accesses made so far (log), the bytes   *)
(* written to offset 0 (sent) and the register block at call time (entry). *)
(* Every volatile access is one step.  Register offsets are relative to    *)
(* base_address, which is taken to be the (2-byte aligned) start of a live *)
(* device's register block on a little-endian target.                      *)
(***************************************************************************)
EXTENDS Integers, Sequences, FiniteSets, TLC

VARIABLES dev, pc, op, arg, idx, ret, log, sent, entry

vars == <<dev, pc, op, arg, idx, ret, log, sent, entry>>

(***************************************************************************)
(* Bounds of the model.                                                    *)
(***************************************************************************)
\* Longest string handed to write_str.
MaxStrLen == 3
\* Number of distinct letters ('A', 'B', ...) the strings are built from,
\* besides the line feed.
NumChars == 2

(***************************************************************************)
(* Values.                                                                 *)
(***************************************************************************)
Byte == 0..255

Callers == {"a", "b"}
SoleCaller == {"a"}

\* enum discriminants, i.e. the value of `x as u8` / `x as u16`
WordLength == {0, 1, 2, 3}
StopBits == {0, 1}
ParityBit == {0, 1}
ParitySelect == {0, 1}
StickParity == {0, 1}
Break == {0, 1}
DLAB == {0, 1}
DLAB_CLEAR == 0
DLAB_SET == 1
DMAMode == {0, 1}
MODE0 == 0
MODE1 == 1
Divisor == {2304, 384, 96, 48, 24, 12, 6, 3, 2, 1}
BAUD9600 == 12

\* register offsets from base_address used by the driver
OFF_DATA == 0
OFF_FCR == 2
OFF_LCR == 3
OFF_LSR == 5
\* masks tested on the line status register
LSR_THRE == 32
LSR_DR == 1

(***************************************************************************)
(* u8 arithmetic.                                                          *)
(***************************************************************************)
RECURSIVE Pow2(_)
Pow2(n) == IF n = 0 THEN 1 ELSE 2 * Pow2(n - 1)

RECURSIVE BitOr(_, _)
BitOr(a, b) ==
    IF a = 0 THEN b
    ELSE IF b = 0 THEN a
    ELSE (IF a % 2 = 1 \/ b % 2 = 1 THEN 1 ELSE 0) + 2 * BitOr(a \div 2, b \div 2)

RECURSIVE BitAnd(_, _)
BitAnd(a, b) ==
    IF a = 0 \/ b = 0 THEN 0
    ELSE (IF a % 2 = 1 /\ b % 2 = 1 THEN 1 ELSE 0) + 2 * BitAnd(a \div 2, b \div 2)

\* (x as u8) << n
Shl8(x, n) == (x * Pow2(n)) % 256

\* bit n of a byte
Bit(v, n) == (v \div Pow2(n)) % 2

(***************************************************************************)
(* The device: the NS16550A register block behind base_address.            *)
(* Offsets 0 and 1 are multiplexed by LCR bit 7 (DLAB): divisor latch      *)
(* when set, transmit holding / interrupt enable register when clear.      *)
(* thr is the last byte handed to the transmitter.  The line status        *)
(* register and the receiver buffer change asynchronously to the program:  *)
(* a read returns whatever the hardware presents at that moment.           *)
(*                                                                         *)
(* tx is the transmitter: "free" leaves line status bit 5 to the hardware  *)
(* at every read; otherwise bit 5 is set exactly while the holding         *)
(* register is "empty", a write to it makes it "full" until the hardware   *)
(* drains the byte onto the wire, and a write while it is "full"           *)
(* overwrites the undrained byte (lost).                                   *)
(***************************************************************************)
DevDLAB(d) == Bit(d.lcr, 7)

DevWrite8(d, off, v) ==
    CASE off = 0 -> IF DevDLAB(d) = 1 THEN [d EXCEPT !.dll = v]
                    ELSE [d EXCEPT !.thr = v,
                                   !.tx = IF @ = "free" THEN "free" ELSE "full",
                                   !.lost = @ \/ d.tx = "full"]
      [] off = 1 -> IF DevDLAB(d) = 1 THEN [d EXCEPT !.dlm = v] ELSE [d EXCEPT !.ier = v]
      [] off = 2 -> [d EXCEPT !.fcr = v]
      [] off = 3 -> [d EXCEPT !.lcr = v]
      [] OTHER -> d

\* a 16-bit store on the little-endian bus: low byte at off, high byte at off + 1
DevWrite16(d, off, v) == DevWrite8(DevWrite8(d, off, v % 256), off + 1, v \div 256)

\* line status values the hardware may present
LsrValues == {0, 1, 32, 33, 96, 97, 223, 254}

\* the values a byte read of `off` may return
DevRead8(d, off) ==
    CASE off = 0 -> IF DevDLAB(d) = 1 THEN {d.dll} ELSE Byte
      [] off = 1 -> IF DevDLAB(d) = 1 THEN {d.dlm} ELSE {d.ier}
      [] off = 3 -> {d.lcr}
      [] off = 5 -> IF d.tx = "free" THEN LsrValues
                    ELSE {v \in LsrValues : (Bit(v, 5) = 1) <=> (d.tx = "empty")}
      [] OTHER -> Byte

\* register states the device may be in when a call starts
PriorLCR == {0, 27, 128, 255}
PriorDivisor == {1, 2304}
PriorTHR == {0, 255}
PriorDev ==
    { [lcr |-> l, fcr |-> 0, dll |-> dv % 256, dlm |-> dv \div 256, thr |-> t, ier |-> 0,
       tx |-> "free", lost |-> FALSE, wire |-> <<>>] :
        l \in PriorLCR, dv \in PriorDivisor, t \in PriorTHR }

(***************************************************************************)
(* Volatile accesses of one caller.                                        *)
(***************************************************************************)
write_volatile_u8(p, off, v) ==
    /\ dev' = DevWrite8(dev, off, v)
    /\ log' = [log EXCEPT ![p] = Append(@, <<"w8", off, v>>)]
    /\ sent' = [sent EXCEPT ![p] = IF off = 0 THEN Append(@, v) ELSE @]

write_volatile_u16(p, off, v) ==
    /\ dev' = DevWrite16(dev, off, v)
    /\ log' = [log EXCEPT ![p] = Append(@, <<"w16", off, v>>)]
    /\ UNCHANGED sent

read_volatile_u8(p, off, v) ==
    /\ v \in DevRead8(dev, off)
    /\ log' = [log EXCEPT ![p] = Append(@, <<"r8", off, v>>)]
    /\ UNCHANGED <<dev, sent>>

(***************************************************************************)
(* Results.                                                                *)
(***************************************************************************)
Pending == <<"pending">>
Unit == <<"unit">>
None == <<"None">>
Some(c) == <<"Some", c>>
Ok == <<"Ok">>

(***************************************************************************)
(* Entering a method from outside the driver: `A` is the set the caller    *)
(* draws the arguments from.                                               *)
(***************************************************************************)
Enter(p, name, a, first) ==
    /\ pc[p] = "idle"
    /\ pc' = [pc EXCEPT ![p] = first]
    /\ op' = [op EXCEPT ![p] = name]
    /\ arg' = [arg EXCEPT ![p] = a]
    /\ idx' = [idx EXCEPT ![p] = 0]
    /\ ret' = [ret EXCEPT ![p] = Pending]
    /\ log' = [log EXCEPT ![p] = <<>>]
    /\ sent' = [sent EXCEPT ![p] = <<>>]
    /\ entry' = [entry EXCEPT ![p] = dev]
    /\ UNCHANGED dev

Goto(p, label) == pc' = [pc EXCEPT ![p] = label]

Return(p, v) ==
    /\ pc' = [pc EXCEPT ![p] = "done"]
    /\ ret' = [ret EXCEPT ![p] = v]

(***************************************************************************)
(* new and base_address                                                    *)
(***************************************************************************)
\* base addresses handed to new: any even usize, none is validated
BaseAddresses == {0, 1016, 268435456}
NewArgs == [base_address : BaseAddresses]
\* the receiver of base_address, a Uart built by new
SelfArgs == [self : [base_address : BaseAddresses]]

NewCall(p, A) ==
    /\ pc[p] = "idle"
    /\ \E a \in A : Enter(p, "new", a, "new_body")

\* Self { base_address }
NewReturn(p) ==
    /\ pc[p] = "new_body"
    /\ Return(p, [base_address |-> arg[p].base_address])
    /\ UNCHANGED <<dev, log, sent, op, arg, idx, entry>>

BaseAddressCall(p, A) ==
    /\ pc[p] = "idle"
    /\ \E a \in A : Enter(p, "base_address", a, "base_address_body")

\* self.base_address
BaseAddressReturn(p) ==
    /\ pc[p] = "base_address_body"
    /\ Return(p, arg[p].self.base_address)
    /\ UNCHANGED <<dev, log, sent, op, arg, idx, entry>>

(***************************************************************************)
(* set_lcr                                                                 *)
(***************************************************************************)
LcrArgs ==
    [word_length : WordLength, stop_bits : StopBits, parity_bit : ParityBit,
     parity_select : ParitySelect, stick_parity : StickParity, break_ : Break,
     dlab : DLAB]

\* break_ shifted to bit 7, the place of dlab
LcrByte_BreakAt7(word_length, stop_bits, parity_bit, parity_select, stick_parity, break_, dlab) ==
    BitOr(word_length,
    BitOr(Shl8(stop_bits, 2),
    BitOr(Shl8(parity_bit, 3),
    BitOr(Shl8(parity_select, 4),
    BitOr(Shl8(stick_parity, 5),
    BitOr(Shl8(break_, 7),
          Shl8(dlab, 7)))))))

\* parity_select shifted to bit 3, the place of parity_bit
LcrByte_ParitySelectAt3(word_length, stop_bits, parity_bit, parity_select, stick_parity, break_, dlab) ==
    BitOr(word_length,
    BitOr(Shl8(stop_bits, 2),
    BitOr(Shl8(parity_bit, 3),
    BitOr(Shl8(parity_select, 3),
    BitOr(Shl8(stick_parity, 5),
    BitOr(Shl8(break_, 6),
          Shl8(dlab, 7)))))))

LcrByte(word_length, stop_bits, parity_bit, parity_select, stick_parity, break_, dlab) ==
    BitOr(word_length,
    BitOr(Shl8(stop_bits, 2),
    BitOr(Shl8(parity_bit, 3),
    BitOr(Shl8(parity_select, 4),
    BitOr(Shl8(stick_parity, 5),
    BitOr(Shl8(break_, 6),
          Shl8(dlab, 7)))))))

\* the body of set_lcr: one volatile byte write to base_address + 3
set_lcr(p, a, dlab) ==
    write_volatile_u8(p, OFF_LCR,
        LcrByte(a.word_length, a.stop_bits, a.parity_bit, a.parity_select,
                a.stick_parity, a.break_, dlab))

SetLcrCall(p, A) ==
    /\ pc[p] = "idle"
    /\ \E a \in A : Enter(p, "set_lcr", a, "set_lcr")

SetLcrWrite(p) ==
    /\ pc[p] = "set_lcr"
    /\ set_lcr(p, arg[p], arg[p].dlab)
    /\ Return(p, Unit)
    /\ UNCHANGED <<op, arg, idx, entry>>

(***************************************************************************)
(* set_fcr                                                                 *)
(***************************************************************************)
FcrArgs == [dma_mode : DMAMode]

\* the FIFO enable bit left out
FcrByte_NoFifoEnable(dma_mode) == Shl8(dma_mode, 3)

FcrByte(dma_mode) == BitOr(1, Shl8(dma_mode, 3))

\* the write of set_fcr aimed at base_address + 3
set_fcr_AtLcrOffset(p, dma_mode) == write_volatile_u8(p, OFF_LCR, FcrByte(dma_mode))

\* the body of set_fcr: one volatile byte write to base_address + 2
set_fcr(p, dma_mode) == write_volatile_u8(p, OFF_FCR, FcrByte(dma_mode))

SetFcrCall(p, A) ==
    /\ pc[p] = "idle"
    /\ \E a \in A : Enter(p, "set_fcr", a, "set_fcr")

SetFcrWrite(p) ==
    /\ pc[p] = "set_fcr"
    /\ set_fcr(p, arg[p].dma_mode)
    /\ Return(p, Unit)
    /\ UNCHANGED <<op, arg, idx, entry>>

(***************************************************************************)
(* init                                                                    *)
(***************************************************************************)
InitArgs ==
    [word_length : WordLength, stop_bits : StopBits, parity_bit : ParityBit,
     parity_select : ParitySelect, stick_parity : StickParity, break_ : Break,
     dma_mode : DMAMode, divisor : Divisor]

InitCall(p, A) ==
    /\ pc[p] = "idle"
    /\ \E a \in A : Enter(p, "init", a, "init_lcr_set")

\* the first set_lcr of init called with DLAB::CLEAR
InitLcrSet_DlabClear(p) ==
    /\ pc[p] = "init_lcr_set"
    /\ set_lcr(p, arg[p], DLAB_CLEAR)
    /\ Goto(p, "init_fcr")
    /\ UNCHANGED <<op, arg, idx, ret, entry>>

\* self.set_lcr(..., DLAB::SET)
InitLcrSet(p) ==
    /\ pc[p] = "init_lcr_set"
    /\ set_lcr(p, arg[p], DLAB_SET)
    /\ Goto(p, "init_fcr")
    /\ UNCHANGED <<op, arg, idx, ret, entry>>

\* init configuring the FIFO with DMAMode::MODE0 whatever dma_mode says
InitFcr_Mode0(p) ==
    /\ pc[p] = "init_fcr"
    /\ set_fcr(p, MODE0)
    /\ Goto(p, "init_div")
    /\ UNCHANGED <<op, arg, idx, ret, entry>>

\* self.set_fcr(dma_mode)
InitFcr(p) ==
    /\ pc[p] = "init_fcr"
    /\ set_fcr(p, arg[p].dma_mode)
    /\ Goto(p, "init_div")
    /\ UNCHANGED <<op, arg, idx, ret, entry>>

\* the divisor written through a *mut u8: (divisor as u8) to offset 0 only
InitDivisor_ByteWrite(p) ==
    /\ pc[p] = "init_div"
    /\ write_volatile_u8(p, OFF_DATA, arg[p].divisor % 256)
    /\ Goto(p, "init_lcr_clear")
    /\ UNCHANGED <<op, arg, idx, ret, entry>>

\* (base_address as *mut u16).write_volatile(divisor as u16)
InitDivisor(p) ==
    /\ pc[p] = "init_div"
    /\ write_volatile_u16(p, OFF_DATA, arg[p].divisor)
    /\ Goto(p, "init_lcr_clear")
    /\ UNCHANGED <<op, arg, idx, ret, entry>>

\* init returning after the divisor write, without the last set_lcr
InitLcrClear_Skipped(p) ==
    /\ pc[p] = "init_lcr_clear"
    /\ Return(p, Unit)
    /\ UNCHANGED <<dev, log, sent, op, arg, idx, entry>>

\* the last set_lcr of init called with DLAB::SET again
InitLcrClear_DlabSet(p) ==
    /\ pc[p] = "init_lcr_clear"
    /\ set_lcr(p, arg[p], DLAB_SET)
    /\ Return(p, Unit)
    /\ UNCHANGED <<op, arg, idx, entry>>

\* self.set_lcr(..., DLAB::CLEAR)
InitLcrClear(p) ==
    /\ pc[p] = "init_lcr_clear"
    /\ set_lcr(p, arg[p], DLAB_CLEAR)
    /\ Return(p, Unit)
    /\ UNCHANGED <<op, arg, idx, entry>>

(***************************************************************************)
(* put                                                                     *)
(***************************************************************************)
PutArgs == [c : Byte]

\* the byte the running put was called with: its own argument, or the item of
\* s.bytes() the closure of write_str passes
PutArg(p) == IF op[p] = "write_str" THEN arg[p].s[idx[p] + 1] ELSE arg[p].c

\* put returns v: to the caller of the driver, or into the loop of write_str
PutReturn(p, v) ==
    IF op[p] = "write_str"
    THEN /\ pc' = [pc EXCEPT ![p] = "ws_while"]
         /\ ret' = [ret EXCEPT ![p] = v]
    ELSE Return(p, v)

\* the test inverted: None while the holding register is empty
ThrNotEmpty_Inverted(v) == BitAnd(v, LSR_THRE) # 0

\* the test made on bit 6 (transmitter empty) instead of bit 5
ThrNotEmpty_Mask40(v) == BitAnd(v, 64) = 0

\* the test of put on the line status byte it read: THR is not empty
ThrNotEmpty(v) == BitAnd(v, LSR_THRE) = 0

PutCall(p, A) ==
    /\ pc[p] = "idle"
    /\ \E a \in A : Enter(p, "put", a, "put_lsr")

\* the unconditional put: the status is read and the byte written whatever it says
PutLsr_IgnoresStatus(p) ==
    /\ pc[p] = "put_lsr"
    /\ \E v \in DevRead8(dev, OFF_LSR) :
        /\ read_volatile_u8(p, OFF_LSR, v)
        /\ Goto(p, "put_thr") /\ UNCHANGED ret
    /\ UNCHANGED <<op, arg, idx, entry>>

\* put polling until the holding register is empty
PutLsr_Retry(p) ==
    /\ pc[p] = "put_lsr"
    /\ \E v \in DevRead8(dev, OFF_LSR) :
        /\ read_volatile_u8(p, OFF_LSR, v)
        /\ IF ThrNotEmpty(v)
           THEN UNCHANGED <<pc, ret>>
           ELSE Goto(p, "put_thr") /\ UNCHANGED ret
    /\ UNCHANGED <<op, arg, idx, entry>>

\* if ptr_data_ready.read_volatile() & 0x20 == 0 { return None; }
PutLsr(p) ==
    /\ pc[p] = "put_lsr"
    /\ \E v \in DevRead8(dev, OFF_LSR) :
        /\ read_volatile_u8(p, OFF_LSR, v)
        /\ IF ThrNotEmpty(v)
           THEN PutReturn(p, None)
           ELSE Goto(p, "put_thr") /\ UNCHANGED ret
    /\ UNCHANGED <<op, arg, idx, entry>>

\* the byte written through ptr_data_ready instead of ptr
PutThr_AtLsrOffset(p) ==
    /\ pc[p] = "put_thr"
    /\ write_volatile_u8(p, OFF_LSR, PutArg(p))
    /\ PutReturn(p, Some(PutArg(p)))
    /\ UNCHANGED <<op, arg, idx, entry>>

\* ptr.write_volatile(c); Some(c)
PutThr(p) ==
    /\ pc[p] = "put_thr"
    /\ write_volatile_u8(p, OFF_DATA, PutArg(p))
    /\ PutReturn(p, Some(PutArg(p)))
    /\ UNCHANGED <<op, arg, idx, entry>>

(***************************************************************************)
(* get                                                                     *)
(***************************************************************************)
GetArgs == {<<>>}

\* the test made with the mask of put
NoDataReady_Mask20(v) == BitAnd(v, LSR_THRE) = 0

\* the test of get on the line status byte it read: no data ready
NoDataReady(v) == BitAnd(v, LSR_DR) = 0

GetCall(p, A) ==
    /\ pc[p] = "idle"
    /\ \E a \in A : Enter(p, "get", a, "get_lsr")

\* get polling the modem status register at base_address + 6
GetLsr_AtOffset6(p) ==
    /\ pc[p] = "get_lsr"
    /\ \E v \in DevRead8(dev, 6) :
        /\ read_volatile_u8(p, 6, v)
        /\ IF NoDataReady(v)
           THEN Return(p, None)
           ELSE Goto(p, "get_rbr") /\ UNCHANGED ret
    /\ UNCHANGED <<op, arg, idx, entry>>

\* if ptr_data_ready.read_volatile() & 1 == 0 { None }
GetLsr(p) ==
    /\ pc[p] = "get_lsr"
    /\ \E v \in DevRead8(dev, OFF_LSR) :
        /\ read_volatile_u8(p, OFF_LSR, v)
        /\ IF NoDataReady(v)
           THEN Return(p, None)
           ELSE Goto(p, "get_rbr") /\ UNCHANGED ret
    /\ UNCHANGED <<op, arg, idx, entry>>

\* the data byte read through ptr_data_ready instead of ptr
GetRbr_ReadsLsr(p) ==
    /\ pc[p] = "get_rbr"
    /\ \E v \in DevRead8(dev, OFF_LSR) :
        /\ read_volatile_u8(p, OFF_LSR, v)
        /\ Return(p, Some(v))
    /\ UNCHANGED <<op, arg, idx, entry>>

\* else { Some(ptr.read_volatile()) }
GetRbr(p) ==
    /\ pc[p] = "get_rbr"
    /\ \E v \in DevRead8(dev, OFF_DATA) :
        /\ read_volatile_u8(p, OFF_DATA, v)
        /\ Return(p, Some(v))
    /\ UNCHANGED <<op, arg, idx, entry>>

(***************************************************************************)
(* <Uart as Write>::write_str                                              *)
(*   s.bytes().for_each(|c| while self.put(c) == None {}); Ok(())          *)
(* log restarts with every invocation of put; sent runs over the call.     *)
(***************************************************************************)
\* the bytes of the strings: line feed and the letters from 'A' on
Chars == {10} \cup (65..(64 + NumChars))
Strings == UNION {[1..n -> Chars] : n \in 0..MaxStrLen}
WriteStrArgs == [s : Strings]

\* invoke self.put(c) from the loop
CallPut(p) ==
    /\ pc' = [pc EXCEPT ![p] = "put_lsr"]
    /\ ret' = [ret EXCEPT ![p] = Pending]
    /\ log' = [log EXCEPT ![p] = <<>>]

WriteStrCall(p, A) ==
    /\ pc[p] = "idle"
    /\ \E a \in A : Enter(p, "write_str", a, "ws_next")

\* for_each: take the next byte of s and run the closure on it, or finish with Ok(())
WsNext(p) ==
    /\ pc[p] = "ws_next"
    /\ IF idx[p] < Len(arg[p].s)
       THEN CallPut(p)
       ELSE Return(p, Ok) /\ UNCHANGED log
    /\ UNCHANGED <<dev, op, arg, idx, sent, entry>>

\* put called once per byte, its result ignored
WsWhile_NoRetry(p) ==
    /\ pc[p] = "ws_while"
    /\ idx' = [idx EXCEPT ![p] = @ + 1]
    /\ Goto(p, "ws_next")
    /\ UNCHANGED <<ret, log>>
    /\ UNCHANGED <<dev, op, arg, sent, entry>>

\* while self.put(c) == None {}
WsWhile(p) ==
    /\ pc[p] = "ws_while"
    /\ IF ret[p] = None
       THEN CallPut(p) /\ UNCHANGED idx
       ELSE /\ idx' = [idx EXCEPT ![p] = @ + 1]
            /\ Goto(p, "ws_next")
            /\ UNCHANGED <<ret, log>>
    /\ UNCHANGED <<dev, op, arg, sent, entry>>

(***************************************************************************)
(* Initial states and the specification: one caller runs one method of the *)
(* driver, with any arguments, on a device in any of the prior states.     *)
(***************************************************************************)
Init ==
    /\ dev \in PriorDev
    /\ pc = [p \in Callers |-> "idle"]
    /\ op = [p \in Callers |-> "none"]
    /\ arg = [p \in Callers |-> <<>>]
    /\ idx = [p \in Callers |-> 0]
    /\ ret = [p \in Callers |-> Pending]
    /\ log = [p \in Callers |-> <<>>]
    /\ sent = [p \in Callers |-> <<>>]
    /\ entry = [p \in Callers |-> dev]

Next ==
    \E p \in SoleCaller :
        \/ NewCall(p, NewArgs)
        \/ NewReturn(p)
        \/ BaseAddressCall(p, SelfArgs)
        \/ BaseAddressReturn(p)
        \/ SetLcrCall(p, LcrArgs)
        \/ SetLcrWrite(p)
        \/ SetFcrCall(p, FcrArgs)
        \/ SetFcrWrite(p)
        \/ InitCall(p, InitArgs)
        \/ InitLcrSet(p)
        \/ InitFcr(p)
        \/ InitDivisor(p)
        \/ InitLcrClear(p)
        \/ PutCall(p, PutArgs)
        \/ PutLsr(p)
        \/ PutThr(p)
        \/ GetCall(p, GetArgs)
        \/ GetLsr(p)
        \/ GetRbr(p)
        \/ WriteStrCall(p, WriteStrArgs)
        \/ WsNext(p)
        \/ WsWhile(p)

Spec == Init /\ [][Next]_vars

(***************************************************************************)
(* The transmitter at work: one caller runs put or write_str on a device   *)
(* in transmit mode (DLAB clear) whose holding register is empty or still  *)
(* holds an undrained byte; the hardware drains it when it likes.          *)
(***************************************************************************)
TxPriorDev ==
    { [d EXCEPT !.tx = t] :
        d \in {x \in PriorDev : DevDLAB(x) = 0 /\ x.dlm = 0}, t \in {"empty", "full"} }

\* the hardware shifts the byte of the holding register out
Drain ==
    /\ dev.tx = "full"
    /\ dev' = [dev EXCEPT !.tx = "empty", !.wire = Append(@, dev.thr)]
    /\ UNCHANGED <<pc, op, arg, idx, ret, log, sent, entry>>

InitTx ==
    /\ dev \in TxPriorDev
    /\ pc = [p \in Callers |-> "idle"]
    /\ op = [p \in Callers |-> "none"]
    /\ arg = [p \in Callers |-> <<>>]
    /\ idx = [p \in Callers |-> 0]
    /\ ret = [p \in Callers |-> Pending]
    /\ log = [p \in Callers |-> <<>>]
    /\ sent = [p \in Callers |-> <<>>]
    /\ entry = [p \in Callers |-> dev]

TxCaller ==
    \E p \in SoleCaller :
        \/ PutCall(p, PutArgs)
        \/ WriteStrCall(p, WriteStrArgs)
        \/ PutLsr(p)
        \/ PutThr(p)
        \/ WsNext(p)
        \/ WsWhile(p)

NextTx == TxCaller \/ Drain

SpecTx == InitTx /\ [][NextTx]_vars

\* the processor keeps running the caller, the hardware keeps draining
SpecTxFair == SpecTx /\ WF_vars(TxCaller) /\ WF_vars(Drain)

(***************************************************************************)
(* A caller using the driver for a while: one caller makes any sequence of *)
(* calls, one after the other, on a device that starts with DLAB clear.    *)
(* The arguments are drawn from a few values of each kind (8 data bits, no *)
(* parity, one stop bit; DLAB clear and set).                              *)
(***************************************************************************)
SeqLcrArgs ==
    {a \in LcrArgs : a.word_length = 3 /\ a.stop_bits = 0 /\ a.parity_bit = 0
                     /\ a.parity_select = 0 /\ a.stick_parity = 0 /\ a.break_ = 0}
SeqInitArgs ==
    {a \in InitArgs : a.word_length = 3 /\ a.stop_bits = 0 /\ a.parity_bit = 0
                      /\ a.parity_select = 0 /\ a.stick_parity = 0 /\ a.break_ = 0
                      /\ a.dma_mode = MODE1 /\ a.divisor \in {BAUD9600, 384}}
SeqPutArgs == {a \in PutArgs : a.c = 65}
SeqWriteStrArgs == {a \in WriteStrArgs : a.s \in {<<>>, <<65, 66>>}}

\* the caller has the result and is ready for its next call
Finish(p) ==
    /\ pc[p] = "done"
    /\ pc' = [pc EXCEPT ![p] = "idle"]
    /\ op' = [op EXCEPT ![p] = "none"]
    /\ arg' = [arg EXCEPT ![p] = <<>>]
    /\ idx' = [idx EXCEPT ![p] = 0]
    /\ ret' = [ret EXCEPT ![p] = Pending]
    /\ log' = [log EXCEPT ![p] = <<>>]
    /\ sent' = [sent EXCEPT ![p] = <<>>]
    /\ entry' = [entry EXCEPT ![p] = dev]
    /\ UNCHANGED dev

InitSeq ==
    /\ dev \in {d \in PriorDev : DevDLAB(d) = 0}
    /\ pc = [p \in Callers |-> "idle"]
    /\ op = [p \in Callers |-> "none"]
    /\ arg = [p \in Callers |-> <<>>]
    /\ idx = [p \in Callers |-> 0]
    /\ ret = [p \in Callers |-> Pending]
    /\ log = [p \in Callers |-> <<>>]
    /\ sent = [p \in Callers |-> <<>>]
    /\ entry = [p \in Callers |-> dev]

NextSeq ==
    \E p \in SoleCaller :
        \/ SetLcrCall(p, SeqLcrArgs)
        \/ SetLcrWrite(p)
        \/ SetFcrCall(p, FcrArgs)
        \/ SetFcrWrite(p)
        \/ InitCall(p, SeqInitArgs)
        \/ InitLcrSet(p)
        \/ InitFcr(p)
        \/ InitDivisor(p)
        \/ InitLcrClear(p)
        \/ PutCall(p, SeqPutArgs)
        \/ PutLsr(p)
        \/ PutThr(p)
        \/ GetCall(p, GetArgs)
        \/ GetLsr(p)
        \/ GetRbr(p)
        \/ WriteStrCall(p, SeqWriteStrArgs)
        \/ WsNext(p)
        \/ WsWhile(p)
        \/ Finish(p)

SpecSeq == InitSeq /\ [][NextSeq]_vars

(***************************************************************************)
(* Two callers sharing the device without synchronisation: the volatile    *)
(* accesses of init, put and get interleave one access at a time (a 16-bit *)
(* store is one bus access).  Both callers configure the device, again and *)
(* again; the second one may instead use it, once.                         *)
(***************************************************************************)
InitRace ==
    /\ dev \in {d \in PriorDev : d.lcr = 0 /\ d.thr = 0}
    /\ pc = [p \in Callers |-> "idle"]
    /\ op = [p \in Callers |-> "none"]
    /\ arg = [p \in Callers |-> <<>>]
    /\ idx = [p \in Callers |-> 0]
    /\ ret = [p \in Callers |-> Pending]
    /\ log = [p \in Callers |-> <<>>]
    /\ sent = [p \in Callers |-> <<>>]
    /\ entry = [p \in Callers |-> dev]

NextRace ==
    \/ \E p \in Callers :
        \/ InitCall(p, SeqInitArgs)
        \/ InitLcrSet(p)
        \/ InitFcr(p)
        \/ InitDivisor(p)
        \/ InitLcrClear(p)
        \/ (op[p] = "init" /\ Finish(p))
    \/ \E p \in Callers \ SoleCaller :
        \/ PutCall(p, SeqPutArgs)
        \/ PutLsr(p)
        \/ PutThr(p)
        \/ GetCall(p, GetArgs)
        \/ GetLsr(p)
        \/ GetRbr(p)

SpecRace == InitRace /\ [][NextRace]_vars

(***************************************************************************)
(* Two calls of set_lcr, each with any of the 256 argument tuples, whose   *)
(* written bytes can be compared.                                          *)
(***************************************************************************)
NextLcr ==
    \E p \in Callers :
        \/ SetLcrCall(p, LcrArgs)
        \/ SetLcrWrite(p)

SpecLcr == InitRace /\ [][NextLcr]_vars

(***************************************************************************)
(* Properties.  "returned(p, name)" is the state in which the call of      *)
(* method `name` by p has returned.                                        *)
(***************************************************************************)
returned(p, name) == op[p] = name /\ pc[p] = "done"

\* the LCR byte of the bit-position table: bits 0-1 word length, bit 2 stop bits,
\* bit 3 parity enable, bit 4 parity select, bit 5 stick parity, bit 6 break, bit 7 DLAB
TableLcr(a, dlab) ==
    a.word_length + 4 * a.stop_bits + 8 * a.parity_bit + 16 * a.parity_select
        + 32 * a.stick_parity + 64 * a.break_ + 128 * dlab

\* C1: a call of set_lcr makes exactly one register access, a byte write to
\* offset 3 of the byte the bit-position table gives for its seven arguments;
\* it reads nothing and touches no other offset (only the LCR changes).
C1_SetLcrWritesTableByte ==
    \A p \in Callers :
        /\ (op[p] = "set_lcr" /\ pc[p] # "done") => log[p] = <<>> /\ dev = entry[p]
        /\ returned(p, "set_lcr") =>
            /\ log[p] = << <<"w8", 3, TableLcr(arg[p], arg[p].dlab)>> >>
            /\ dev = [entry[p] EXCEPT !.lcr = TableLcr(arg[p], arg[p].dlab)]
            /\ ret[p] = Unit

C1_Witness ==
    \E p \in Callers :
        /\ returned(p, "set_lcr")
        /\ arg[p] = [word_length |-> 2, stop_bits |-> 0, parity_bit |-> 1,
                     parity_select |-> 1, stick_parity |-> 0, break_ |-> 0, dlab |-> 1]
        /\ log[p] = << <<"w8", 3, 154>> >>
        /\ entry[p].lcr = 27

\* the four writes of init, in order
InitWrites(a) ==
    << <<"w8", 3, TableLcr(a, 1)>>,
       <<"w8", 2, 1 + 8 * a.dma_mode>>,
       <<"w16", 0, a.divisor>>,
       <<"w8", 3, TableLcr(a, 0)>> >>

\* C2: init makes exactly four register writes and no read, in this order:
\* the LCR byte with DLAB = 1 at offset 3, the FCR byte at offset 2, one 16-bit
\* write of the divisor at offset 0, the LCR byte with DLAB = 0 at offset 3.
C2_InitFourWritesInOrder ==
    \A p \in Callers :
        op[p] = "init" =>
            /\ Len(log[p]) <= 4
            /\ log[p] = SubSeq(InitWrites(arg[p]), 1, Len(log[p]))
            /\ pc[p] = "done" <=> Len(log[p]) = 4

C2_Witness ==
    \E p \in Callers :
        /\ returned(p, "init")
        /\ arg[p].divisor = 384 /\ arg[p].dma_mode = 1 /\ arg[p].word_length = 3
        /\ arg[p].stop_bits = 0 /\ arg[p].parity_bit = 0 /\ arg[p].parity_select = 0
        /\ arg[p].stick_parity = 0 /\ arg[p].break_ = 0
        /\ log[p] = << <<"w8", 3, 131>>, <<"w8", 2, 9>>, <<"w16", 0, 384>>, <<"w8", 3, 3>> >>

\* p makes a 16-bit write in this step
DivisorWriteStep(p) ==
    /\ Len(log'[p]) = Len(log[p]) + 1
    /\ log'[p][Len(log'[p])][1] = "w16"
    /\ log'[p][Len(log'[p])][2] = 0

\* C3: whatever the registers held before, LCR bit 7 (DLAB) is 1 in the state
\* the divisor write of init acts on and 0 in the state in which init returns.
C3_DlabSetAtDivisorWriteClearAtReturn ==
    [][\A p \in Callers :
        /\ DivisorWriteStep(p) => dev.lcr \div 128 = 1 /\ dev'.lcr \div 128 = 1
        /\ (op[p] = "init" /\ pc[p] # "done" /\ pc'[p] = "done") => dev'.lcr \div 128 = 0
      ]_vars

C3_Witness ==
    \E p \in Callers :
        /\ returned(p, "init")
        /\ entry[p].lcr = 27
        /\ Len(log[p]) = 4 /\ log[p][3][1] = "w16"
        /\ dev.lcr \div 128 = 0

\* C4: the divisor write of init leaves the low byte of the divisor in the
\* divisor latch low byte (offset 0 under DLAB) and the high byte in the latch
\* high byte (offset 1): value % 256 and value / 256, 0x0C and 0x00 for BAUD9600,
\* 0x00 and 0x09 for BAUD50; the transmit holding register and the interrupt
\* enable register keep what they held.
C4_DivisorBytesInLatch ==
    \A p \in Callers :
        (op[p] = "init" /\ Len(log[p]) >= 3) =>
            /\ dev.dll = arg[p].divisor % 256
            /\ dev.dlm = arg[p].divisor \div 256
            /\ arg[p].divisor = 12 => dev.dll = 12 /\ dev.dlm = 0
            /\ arg[p].divisor = 2304 => dev.dll = 0 /\ dev.dlm = 9
            /\ dev.thr = entry[p].thr
            /\ dev.ier = entry[p].ier

C4_Witness ==
    \E p \in Callers :
        /\ op[p] = "init" /\ pc[p] = "init_lcr_clear"
        /\ arg[p].divisor = BAUD9600
        /\ entry[p].lcr = 0 /\ entry[p].dll = 0 /\ entry[p].dlm = 9
        /\ dev.dll = 12 /\ dev.dlm = 0

\* C5: set_fcr makes exactly one register access, a byte write to offset 2 of
\* 0x01 for MODE0 and 0x09 for MODE1: bit 0 is set, bit 3 is the DMA mode, all
\* other bits are zero.
C5_SetFcrWritesFifoEnable ==
    \A p \in Callers :
        /\ (op[p] = "set_fcr" /\ pc[p] # "done") => log[p] = <<>> /\ dev = entry[p]
        /\ returned(p, "set_fcr") =>
            /\ Len(log[p]) = 1
            /\ log[p][1][1] = "w8" /\ log[p][1][2] = 2
            /\ arg[p].dma_mode = 0 => log[p][1][3] = 1
            /\ arg[p].dma_mode = 1 => log[p][1][3] = 9
            /\ log[p][1][3] % 2 = 1
            /\ (log[p][1][3] \div 8) % 2 = arg[p].dma_mode
            /\ log[p][1][3] - 1 - 8 * arg[p].dma_mode = 0
            /\ dev = [entry[p] EXCEPT !.fcr = log[p][1][3]]

C5_Witness ==
    \E p \in Callers :
        /\ returned(p, "set_fcr")
        /\ arg[p].dma_mode = MODE1
        /\ log[p] = << <<"w8", 2, 9>> >>
        /\ dev.fcr = 9

\* p's running or returned put (or get) began by reading the line status
\* register, and the byte it read there
ReadLsr(p) == Len(log[p]) >= 1 /\ log[p][1][1] = "r8" /\ log[p][1][2] = 5
LsrRead(p) == log[p][1][3]

\* C6: when the line status byte put read has bit 5 clear, put(c) returns None
\* at once, for every c and whatever the other bits: it makes no write, and
\* offset 0 and every other register keep what they held.
C6_PutNotReadyReturnsNone ==
    \A p \in Callers :
        (op[p] = "put" /\ ReadLsr(p) /\ (LsrRead(p) \div 32) % 2 = 0) =>
            /\ pc[p] = "done"
            /\ ret[p] = None
            /\ Len(log[p]) = 1
            /\ sent[p] = <<>>
            /\ dev = entry[p]

C6_Witness ==
    \E p \in Callers :
        /\ returned(p, "put")
        /\ arg[p].c = 65
        /\ log[p] = << <<"r8", 5, 223>> >>
        /\ ret[p] = None
        /\ dev.thr = 0

\* C7: when the line status byte put read has bit 5 set, put(c) writes the
\* byte c exactly once to offset 0, after the read, and returns Some(c), for
\* every c and whatever the other bits; before the read it accesses nothing.
C7_PutReadyWritesAndReturnsByte ==
    \A p \in Callers :
        /\ (op[p] = "put" /\ pc[p] = "put_lsr") => log[p] = <<>>
        /\ (op[p] = "put" /\ ReadLsr(p) /\ (LsrRead(p) \div 32) % 2 = 1) =>
                /\ pc[p] = "put_thr" => Len(log[p]) = 1 /\ dev = entry[p]
                /\ pc[p] \in {"put_thr", "done"}
                /\ pc[p] = "done" =>
                    /\ Len(log[p]) = 2
                    /\ log[p][2] = <<"w8", 0, arg[p].c>>
                    /\ sent[p] = <<arg[p].c>>
                    /\ ret[p] = <<"Some", arg[p].c>>

C7_Witness ==
    \E p \in Callers :
        /\ returned(p, "put")
        /\ arg[p].c = 65
        /\ log[p] = << <<"r8", 5, 32>>, <<"w8", 0, 65>> >>
        /\ ret[p] = <<"Some", 65>>
        /\ entry[p].lcr = 0 /\ entry[p].thr = 0 /\ dev.thr = 65

\* C8: when the line status byte get read has bit 0 clear, get returns None
\* without reading offset 0 and without writing anything.
C8_GetNoDataReturnsNone ==
    \A p \in Callers :
        (op[p] = "get" /\ ReadLsr(p) /\ LsrRead(p) % 2 = 0) =>
            /\ pc[p] = "done"
            /\ ret[p] = None
            /\ Len(log[p]) = 1
            /\ dev = entry[p]

C8_Witness ==
    \E p \in Callers :
        /\ returned(p, "get")
        /\ log[p] = << <<"r8", 5, 254>> >>
        /\ ret[p] = None

\* C9: when the line status byte get read has bit 0 set, get reads offset 0
\* exactly once, after that read, and returns Some(v) for the byte v it read
\* there; it writes nothing.
C9_GetDataReturnsByteRead ==
    \A p \in Callers :
        /\ (op[p] = "get" /\ pc[p] = "get_lsr") => log[p] = <<>>
        /\ op[p] = "get" => dev = entry[p] /\ sent[p] = <<>>
        /\ (op[p] = "get" /\ ReadLsr(p) /\ LsrRead(p) % 2 = 1) =>
                /\ pc[p] = "get_rbr" => Len(log[p]) = 1
                /\ pc[p] \in {"get_rbr", "done"}
                /\ pc[p] = "done" =>
                    /\ Len(log[p]) = 2
                    /\ log[p][2][1] = "r8" /\ log[p][2][2] = 0
                    /\ log[p][2][3] \in Byte
                    /\ ret[p] = <<"Some", log[p][2][3]>>

C9_Witness ==
    \E p \in Callers :
        /\ returned(p, "get")
        /\ entry[p].lcr = 0
        /\ log[p] = << <<"r8", 5, 1>>, <<"r8", 0, 88>> >>
        /\ ret[p] = <<"Some", 88>>

\* C10: whatever the transmitter-ready bit does from poll to poll, the bytes
\* write_str(s) has written to offset 0 are always the first bytes of s, in
\* order and once each, the byte in transmission included only once put wrote
\* it; when write_str returns they are exactly s, and nothing for the empty s.
C10_WriteStrSendsBytesInOrder ==
    \A p \in Callers :
        op[p] = "write_str" =>
            /\ Len(sent[p]) <= Len(arg[p].s)
            /\ sent[p] = SubSeq(arg[p].s, 1, Len(sent[p]))
            /\ Len(sent[p]) >= idx[p] /\ Len(sent[p]) <= idx[p] + 1
            /\ pc[p] = "done" => sent[p] = arg[p].s /\ ret[p] = Ok
            /\ (pc[p] = "done" /\ arg[p].s = <<>>) => log[p] = <<>> /\ dev = entry[p]

C10_Witness ==
    \E p \in Callers :
        /\ returned(p, "write_str")
        /\ arg[p].s = <<65, 66>>
        /\ sent[p] = <<65, 66>>
        /\ entry[p].lcr = 0 /\ dev.thr = 66

\* C11: write_str has no failure path, its only result is Ok, and with a
\* transmitter that drains every byte it holds, every call of write_str
\* returns.
C11_WriteStrReturnsOk ==
    /\ [](\A p \in Callers : returned(p, "write_str") => ret[p] = Ok)
    /\ \A p \in Callers :
        (op[p] = "write_str") ~> (pc[p] = "done" /\ ret[p] = Ok /\ sent[p] = arg[p].s)

C11_Witness ==
    \E p \in Callers :
        /\ returned(p, "write_str")
        /\ arg[p].s = <<65, 10, 66>>
        /\ ret[p] = Ok
        /\ entry[p].tx = "full"
        /\ dev.wire = <<entry[p].thr, 65, 10>> /\ dev.tx = "full" /\ dev.thr = 66

\* the methods of impl Uart that access registers, and the most accesses each makes
Primitive == {"put", "get", "init", "set_lcr", "set_fcr"}
AccessLimit(name) ==
    CASE name \in {"put", "get"} -> 2
      [] name = "init" -> 4
      [] OTHER -> 1

\* the accesses of log[p] that read the line status register
LsrReads(p) == {i \in 1..Len(log[p]) : log[p][i][1] = "r8" /\ log[p][i][2] = 5}

\* C12: put and get neither retry nor wait: a call reads the line status
\* register exactly once, first, makes at most one further access (one write
\* of offset 0 for put, one read of offset 0 for get) and has returned right
\* after the read when the device is not ready; every step of put, get, init,
\* set_lcr and set_fcr is one register access, within a fixed number (2, 2, 4,
\* 1, 1), so a call returns after that many steps whatever the device does.
C12_NoRetryOutsideWriteStr ==
    /\ [][\A p \in Callers :
            (op'[p] \in Primitive /\ <<pc[p], log[p]>> # <<pc'[p], log'[p]>>) =>
                \/ pc[p] = "idle" /\ log'[p] = <<>>
                \/ /\ Len(log'[p]) = Len(log[p]) + 1
                   /\ Len(log'[p]) <= AccessLimit(op'[p])
                   /\ Len(log'[p]) = AccessLimit(op'[p]) => pc'[p] = "done"
         ]_vars
    /\ [](\A p \in Callers :
            /\ (op[p] \in {"put", "get"} /\ log[p] # <<>>) =>
                /\ LsrReads(p) = {1}
                /\ Len(log[p]) = 2 =>
                    log[p][2][2] = 0 /\ log[p][2][1] = (IF op[p] = "put" THEN "w8" ELSE "r8")
                /\ (op[p] = "put" /\ (log[p][1][3] \div 32) % 2 = 0) => pc[p] = "done"
                /\ (op[p] = "get" /\ log[p][1][3] % 2 = 0) => pc[p] = "done")

C12_Witness ==
    \E p \in Callers :
        /\ returned(p, "put")
        /\ ret[p] = None
        /\ log[p] = << <<"r8", 5, 1>> >>
        /\ arg[p].c = 255

\* no caller is inside a method of the driver
NoneInProgress == \A p \in Callers : pc[p] \in {"idle", "done"}

\* C13 as stated: starting with DLAB clear, after any sequence of completed
\* public operations with any arguments, LCR bit 7 is 0 whenever no operation
\* is in progress.
C13_DlabNeverLeftSet == NoneInProgress => dev.lcr \div 128 = 0

\* C13, amended: in any sequence of completed operations, LCR bit 7 is 0 when
\* init returns, equals the dlab argument when set_lcr returns, and is what it
\* was at the call when set_fcr, put, get or write_str returns; so it is 0
\* whenever no operation is in progress unless set_lcr was called with
\* DLAB::SET since the last init, and then put writes the transmit holding
\* register and not the divisor latch.
C13_DlabAfterEachOperation ==
    \A p \in Callers :
        pc[p] = "done" =>
            /\ dev.lcr \div 128 =
                (CASE op[p] = "init" -> 0
                   [] op[p] = "set_lcr" -> arg[p].dlab
                   [] OTHER -> entry[p].lcr \div 128)
            /\ (entry[p].lcr \div 128 = 0 /\ ~(op[p] = "set_lcr" /\ arg[p].dlab = 1)) =>
                /\ dev.lcr \div 128 = 0
                /\ (op[p] = "put" /\ ret[p] # None) =>
                    dev.thr = arg[p].c /\ dev.dll = entry[p].dll

C13_Witness ==
    \E p \in Callers :
        /\ returned(p, "put")
        /\ ret[p] = <<"Some", 65>>
        /\ entry[p].lcr = 3 /\ entry[p].dll = 12 /\ entry[p].fcr = 9
        /\ dev.lcr = 3 /\ dev.thr = 65 /\ dev.dll = 12

\* the bytes handed to the transmitter of d, oldest first: those on the wire
\* and the one still in the holding register
Transmitted(d) == d.wire \o (IF d.tx = "full" THEN <<d.thr>> ELSE <<>>)

\* C14: with one caller and a transmitter whose line status bit 5 is clear
\* from a write of the holding register until the byte is drained, put and
\* write_str never write offset 0 over an undrained byte: no byte is lost, and
\* the bytes that reached the transmitter are those it had at the call followed
\* by the bytes put accepted, in order; a put that returned Some(c) handed
\* over exactly c, one that returned None nothing.
C14_NoByteOverwritten ==
    /\ dev.lost = FALSE
    /\ \A p \in Callers :
        op[p] \in {"put", "write_str"} =>
            /\ Transmitted(dev) = Transmitted(entry[p]) \o sent[p]
            /\ returned(p, "put") =>
                sent[p] = (IF ret[p] = None THEN <<>> ELSE <<arg[p].c>>)

C14_Witness ==
    \E p \in Callers :
        /\ returned(p, "write_str")
        /\ arg[p].s = <<65, 66>>
        /\ entry[p].tx = "full" /\ entry[p].thr = 255
        /\ dev.wire = <<255, 65, 66>> /\ dev.tx = "empty"
        /\ dev.lost = FALSE

\* p is inside init, between its set_lcr(DLAB::SET) and its set_lcr(DLAB::CLEAR)
InDlabWindow(p) ==
    op[p] = "init" /\ pc[p] \in {"init_fcr", "init_div", "init_lcr_clear"}

\* C15: init is not atomic.  The divisor latch is selected only while some
\* caller is inside init between its two LCR writes, and every access of
\* another caller in that window goes to the latch: put's write of offset 0
\* changes the divisor latch low byte and not the transmit holding register,
\* get's read of offset 0 returns the divisor latch low byte; and when one of
\* two interleaved init calls has already cleared DLAB, the divisor write of
\* the other lands in the holding and interrupt enable registers and leaves
\* the divisor latch as it was.  The witness reaches both interleavings.
C15_InitNotAtomic ==
    /\ [](DevDLAB(dev) = 1 => \E q \in Callers : InDlabWindow(q))
    /\ [][\A p \in Callers :
            /\ (pc[p] = "put_thr" /\ pc'[p] = "done" /\ DevDLAB(dev) = 1) =>
                  /\ \E q \in Callers \ {p} : InDlabWindow(q)
                  /\ ret'[p] = Some(arg[p].c)
                  /\ dev' = [dev EXCEPT !.dll = arg[p].c]
            /\ (pc[p] = "get_rbr" /\ pc'[p] = "done" /\ DevDLAB(dev) = 1) =>
                  /\ \E q \in Callers \ {p} : InDlabWindow(q)
                  /\ ret'[p] = Some(dev.dll)
            /\ (pc[p] = "init_div" /\ pc'[p] = "init_lcr_clear" /\ DevDLAB(dev) = 0) =>
                  /\ Bit(log[p][1][3], 7) = 1
                  /\ dev' = [dev EXCEPT !.thr = arg[p].divisor % 256,
                                        !.ier = arg[p].divisor \div 256]
         ]_vars

\* "b" ran an init inside the init of "a", whose divisor 0x0180 then went to
\* the holding register (0x80) and the interrupt enable register (0x01); in
\* the next init of "a" the put of "b" wrote its byte to the divisor latch
C15_Witness ==
    /\ InDlabWindow("a")
    /\ returned("b", "put") /\ ret["b"] = Some(65)
    /\ DevDLAB(entry["b"]) = 0
    /\ DevDLAB(dev) = 1
    /\ dev.dll = 65 /\ entry["b"].dll = 12
    /\ dev.thr = 128 /\ dev.ier = 1 /\ entry["b"].thr = 128

\* C16: in the state in which an uninterrupted init returns, the LCR holds the
\* byte set_lcr would write for the same six fields and DLAB::CLEAR, the two
\* LCR bytes init wrote differ in bit 7 only (set, then clear), the FCR holds
\* 1 | (dma_mode << 3), the divisor latch holds the divisor (low byte, high
\* byte), and nothing else changed: the transmit holding register received no
\* byte and the interrupt enable register none.
C16_StateAtInitReturn ==
    \A p \in Callers :
        returned(p, "init") =>
            /\ dev.lcr = LcrByte(arg[p].word_length, arg[p].stop_bits, arg[p].parity_bit,
                                 arg[p].parity_select, arg[p].stick_parity,
                                 arg[p].break_, DLAB_CLEAR)
            /\ dev.lcr = TableLcr(arg[p], 0)
            /\ log[p][1][2] = 3 /\ log[p][4][2] = 3
            /\ log[p][4][3] = dev.lcr
            /\ Bit(log[p][1][3], 7) = 1 /\ Bit(log[p][4][3], 7) = 0
            /\ \A i \in 0..6 : Bit(log[p][1][3], i) = Bit(log[p][4][3], i)
            /\ dev.fcr = 1 + 8 * arg[p].dma_mode
            /\ dev.dll + 256 * dev.dlm = arg[p].divisor
            /\ dev.dll < 256 /\ dev.dlm < 256
            /\ sent[p] = <<>>
            /\ dev.thr = entry[p].thr /\ dev.ier = entry[p].ier
            /\ dev.tx = entry[p].tx /\ dev.wire = entry[p].wire /\ dev.lost = entry[p].lost

C16_Witness ==
    \E p \in Callers :
        /\ returned(p, "init")
        /\ arg[p].word_length = 2 /\ arg[p].stop_bits = 1 /\ arg[p].parity_bit = 1
        /\ arg[p].parity_select = 1 /\ arg[p].stick_parity = 0 /\ arg[p].break_ = 1
        /\ arg[p].dma_mode = MODE1 /\ arg[p].divisor = 2304
        /\ entry[p].lcr = 255 /\ entry[p].thr = 255 /\ entry[p].dll = 1
        /\ dev.lcr = 94 /\ log[p][1][3] = 222
        /\ dev.fcr = 9 /\ dev.dll = 0 /\ dev.dlm = 9 /\ dev.thr = 255

\* the byte the returned set_lcr of p wrote
LcrWritten(p) == log[p][1][3]

\* C17: the LCR encoding of set_lcr is a bijection between the 256 argument
\* tuples and the bytes 0..255: two calls wrote the same byte exactly when
\* their arguments were the same, every field is recovered from the written
\* byte by shifting to its table position and masking with its width, and the
\* bytes of the 256 tuples are all of 0..255.
C17_LcrEncodingBijective ==
    /\ \A p, q \in Callers :
        (returned(p, "set_lcr") /\ returned(q, "set_lcr")) =>
            (LcrWritten(p) = LcrWritten(q) <=> arg[p] = arg[q])
    /\ \A p \in Callers :
        returned(p, "set_lcr") =>
            /\ LcrWritten(p) \in 0..255
            /\ LcrWritten(p) % 4 = arg[p].word_length
            /\ (LcrWritten(p) \div 4) % 2 = arg[p].stop_bits
            /\ (LcrWritten(p) \div 8) % 2 = arg[p].parity_bit
            /\ (LcrWritten(p) \div 16) % 2 = arg[p].parity_select
            /\ (LcrWritten(p) \div 32) % 2 = arg[p].stick_parity
            /\ (LcrWritten(p) \div 64) % 2 = arg[p].break_
            /\ (LcrWritten(p) \div 128) % 2 = arg[p].dlab
    /\ (\A p \in Callers : pc[p] = "idle") =>
            /\ Cardinality(LcrArgs) = 256
            /\ { LcrByte(a.word_length, a.stop_bits, a.parity_bit, a.parity_select,
                         a.stick_parity, a.break_, a.dlab) : a \in LcrArgs } = 0..255

\* two calls whose arguments differ in break_ only wrote bytes that differ in
\* bit 6 only
C17_Witness ==
    /\ returned("a", "set_lcr") /\ returned("b", "set_lcr")
    /\ arg["a"] = [arg["b"] EXCEPT !.break_ = 0]
    /\ arg["b"].break_ = 1 /\ arg["b"].dlab = 1
    /\ LcrWritten("a") = 155 /\ LcrWritten("b") = 219
    /\ dev.lcr = 219

\* the offsets a logged access covers: a 16-bit store covers two
Touched(e) == IF e[1] = "w16" THEN {e[2], e[2] + 1} ELSE {e[2]}
IsWrite(e) == e[1] \in {"w8", "w16"}

\* C18: register footprint.  No access of any operation covers offset 4, 6 or
\* 7 and no write covers offset 5; every write of put is a byte write of
\* offset 0 and get writes nothing; put, get and write_str leave the LCR and
\* the FCR as they were and, when DLAB was clear at the call, the divisor
\* latch too; new and base_address make no access and change no register.
C18_RegisterFootprint ==
    \A p \in Callers :
        /\ \A i \in 1..Len(log[p]) :
            /\ Touched(log[p][i]) \subseteq {0, 1, 2, 3, 5}
            /\ IsWrite(log[p][i]) => 5 \notin Touched(log[p][i])
            /\ (op[p] \in {"put", "write_str"} /\ IsWrite(log[p][i])) =>
                    log[p][i][1] = "w8" /\ log[p][i][2] = 0
            /\ op[p] = "get" => ~IsWrite(log[p][i])
        /\ op[p] = "get" => dev = entry[p]
        /\ op[p] \in {"put", "get", "write_str"} =>
            /\ dev.lcr = entry[p].lcr /\ dev.fcr = entry[p].fcr
            /\ DevDLAB(entry[p]) = 0 =>
                    dev.dll = entry[p].dll /\ dev.dlm = entry[p].dlm
        /\ op[p] \in {"new", "base_address"} =>
            /\ log[p] = <<>> /\ sent[p] = <<>> /\ dev = entry[p]
        /\ returned(p, "new") => ret[p].base_address = arg[p].base_address
        /\ returned(p, "base_address") => ret[p] = arg[p].self.base_address

C18_Witness ==
    \E p \in Callers :
        /\ returned(p, "write_str") /\ arg[p].s = <<65, 10, 66>>
        /\ sent[p] = <<65, 10, 66>>
        /\ entry[p].lcr = 27 /\ entry[p].dll = 0 /\ entry[p].dlm = 9 /\ entry[p].thr = 0
        /\ dev = [entry[p] EXCEPT !.thr = 66]

====
